---- MODULE Spec2Model ----
(***************************************************************************)
(* EditorUndoManager (src/src/index.ts): a bounded linear undo history     *)
(* with debounced capture.  One state machine step is one synchronous run  *)
(* of JavaScript between two suspension points (await save(), await        *)
(* render(), the await on captureSnapshot's own promise, a timer).         *)
(***************************************************************************)
EXTENDS Integers, Sequences, FiniteSets, TLC

\* ------------------------------------------------------------------ bounds
MaxMaxHistory == 3      \* config.maxHistory ranges over 1..MaxMaxHistory
MaxPendingNav == 2      \* undo()/redo() calls whose render() is still pending
MaxCalls == 1           \* abandoned handleEditorChange() promises are counted up to here

\* ------------------------------------------------------------ value domain
Null == -1              \* JavaScript null in caretBlockIndex / caretOffset
Undefined == "undefined"

\* A block is an ordered list of <<key, value>> fields: JSON.stringify emits
\* the fields in insertion order, so the order is part of the value.
BlockFirst == << <<"id", "1">>, <<"text", "First">> >>
BlockFirstSwapped == << <<"text", "First">>, <<"id", "1">> >>
BlockFirstExtra == << <<"id", "1">>, <<"text", "First">>, <<"tunes", Undefined>> >>

\* Block lists the host's save() can resolve with.
Contents == { <<>>, <<BlockFirst>>, <<BlockFirstSwapped>> }

\* Arguments of initialize(): a bare array, a wrapper object with a blocks
\* array, or an object without one.
InitialData ==
    [kind : {"array"}, blocks : Contents]
        \cup [kind : {"wrapper"}, blocks : { <<BlockFirst>>, <<BlockFirstExtra>> }]
        \cup { [kind |-> "other", blocks |-> <<>>] }

\* Results of getCaretPosition(): nothing known (any failure), or block and offset.
Carets ==
    { [blockIndex |-> Null, offset |-> Null],
      [blockIndex |-> 0, offset |-> 5] }

VARIABLES
    config,       \* resolved configuration: [maxHistory]
    history,      \* this.history
    position,     \* this.position
    isSaving,     \* this.isSaving
    pendingSave,  \* this.pendingSave
    timeout,      \* debounce(): TRUE iff a timer is armed
    saver,        \* the debounced callback that runs captures: where it is
    rendering,    \* number of undo()/redo() calls awaiting editor.render()
    saves,        \* number of editor.save() calls of captureSnapshot still pending
    obs,          \* what the last step did: operation, save() result, render() and onUpdate() calls
    rt,           \* observer of an undo()-then-redo() sequence started in a settled state
    burst,        \* observer: save() calls started since the last timer firing (-1: none fired yet)
    callers,      \* observer: the promises handleEditorChange() returned, by what holds them
    keydown       \* a keyboard event, a shortcut definition and the matcher's verdict

\* The program's own state, and with it the record of the last step.
prog == <<config, history, position, isSaving, pendingSave, timeout, saver, rendering, saves>>

vars ==
    <<config, history, position, isSaving, pendingSave, timeout, saver, rendering, saves, obs,
      rt, burst, callers, keydown>>

\* ----------------------------------------------------------- pure helpers
RECURSIVE StringifyFields(_)
StringifyFields(fs) ==
    IF fs = <<>> THEN <<>>
    ELSE LET f == Head(fs)
             rest == StringifyFields(Tail(fs))
         IN IF f[2] = Undefined THEN rest
            ELSE <<f[1], ":", f[2]>> \o (IF rest = <<>> THEN <<>> ELSE <<",">> \o rest)

RECURSIVE StringifyBlocks(_)
StringifyBlocks(bs) ==
    IF bs = <<>> THEN <<>>
    ELSE LET rest == StringifyBlocks(Tail(bs))
         IN <<"{">> \o StringifyFields(Head(bs)) \o <<"}">>
                \o (IF rest = <<>> THEN <<>> ELSE <<",">> \o rest)

\* JSON.stringify of a block array, as its token sequence.
JSONStringify(blocks) == <<"[">> \o StringifyBlocks(blocks) \o <<"]">>

RECURSIVE DropUndefined(_)
DropUndefined(fs) ==
    IF fs = <<>> THEN <<>>
    ELSE IF Head(fs)[2] = Undefined THEN DropUndefined(Tail(fs))
         ELSE <<Head(fs)>> \o DropUndefined(Tail(fs))

\* JSON.parse(JSON.stringify(blocks ?? [])): the same blocks, fields in the
\* same order, without the fields whose value is undefined.
CloneBlocks(blocks) == [i \in 1..Len(blocks) |-> DropUndefined(blocks[i])]

ExtractBlocks(initialData) ==
    IF initialData.kind \in {"array", "wrapper"} THEN initialData.blocks ELSE <<>>

CanUndo == position > 0

CanRedoStrict == position > 0 /\ position < Len(history) - 1

CanRedo == position >= 0 /\ position < Len(history) - 1

GetState ==
    [position |-> position, count |-> Len(history), canUndo |-> CanUndo, canRedo |-> CanRedo]

\* getState() evaluated on given field values.
StateOf(h, p) ==
    [position |-> p, count |-> Len(h), canUndo |-> p > 0,
     canRedo |-> p >= 0 /\ p < Len(h) - 1]

\* history[position]?.blocks ?? []  (history is 0-based in the source)
CurrentBlocks(h, p) == IF p >= 0 /\ p < Len(h) THEN h[p + 1].blocks ELSE <<>>

HasChangedAlways(h, p, blocks) == TRUE

HasChanged(h, p, blocks) == JSONStringify(CurrentBlocks(h, p)) # JSONStringify(blocks)

\* Array.prototype.splice(0, n): drop the first n entries (all of them if n > length).
DropFront(h, n) == IF n <= 0 THEN h ELSE SubSeq(h, n + 1, Len(h))

TrimHistoryOffByOne(h, p, max) ==
    LET h1 == IF p < Len(h) - 1 THEN SubSeq(h, 1, p + 1) ELSE h
    IN IF Len(h1) > max
       THEN LET h2 == DropFront(h1, Len(h1) - max + 1)
            IN [history |-> h2, position |-> Len(h2) - 1]
       ELSE [history |-> h1, position |-> p]

TrimHistoryKeepRedo(h, p, max) ==
    IF Len(h) >= max
    THEN LET h2 == DropFront(h, Len(h) - max + 1)
         IN [history |-> h2, position |-> Len(h2) - 1]
    ELSE [history |-> h, position |-> p]

TrimHistory(h, p, max) ==
    LET h1 == IF p < Len(h) - 1 THEN SubSeq(h, 1, p + 1) ELSE h
    IN IF Len(h1) >= max
       THEN LET h2 == DropFront(h1, Len(h1) - max + 1)
            IN [history |-> h2, position |-> Len(h2) - 1]
       ELSE [history |-> h1, position |-> p]

PushSnapshotPastTail(h, p, max, blocks, caret) ==
    LET t == TrimHistory(h, p, max)
        h3 == Append(t.history, [blocks |-> CloneBlocks(blocks),
                                 caretBlockIndex |-> caret.blockIndex,
                                 caretOffset |-> caret.offset])
    IN [history |-> h3, position |-> Len(h3)]

PushSnapshotStalePosition(h, p, max, blocks, caret) ==
    LET t == TrimHistory(h, p, max)
        h3 == Append(t.history, [blocks |-> CloneBlocks(blocks),
                                 caretBlockIndex |-> caret.blockIndex,
                                 caretOffset |-> caret.offset])
    IN [history |-> h3, position |-> p + 1]

\* captureSnapshot, the branch taken when hasChanged: trim, push, move position.
PushSnapshot(h, p, max, blocks, caret) ==
    LET t == TrimHistory(h, p, max)
        h3 == Append(t.history, [blocks |-> CloneBlocks(blocks),
                                 caretBlockIndex |-> caret.blockIndex,
                                 caretOffset |-> caret.offset])
    IN [history |-> h3, position |-> Len(h3) - 1]

\* notify(): one onUpdate call carrying getState().
Notify(h, p) == <<StateOf(h, p)>>

\* The record of a step: the operation, getState() before a push, the blocks
\* save() resolved with, the arguments of the render() calls, the onUpdate() calls.
ObservedPush(before, saved, notified) ==
    [op |-> "push", before |-> before, saved |-> saved, rendered |-> <<>>,
     notified |-> notified]

\* The record of initialize(): getState() before it, its argument, the onUpdate() call.
ObservedInitialize(before, given, notified) ==
    [op |-> "initialize", before |-> before, saved |-> given, rendered |-> <<>>,
     notified |-> notified]

Observed(op, saved, rendered, notified) ==
    [op |-> op, before |-> StateOf(<<>>, -1), saved |-> saved, rendered |-> rendered,
     notified |-> notified]

RtIdle == [phase |-> "idle", state |-> StateOf(<<>>, -1), blocks |-> <<>>]

\* No handleEditorChange() promise exists yet.  armed: the call whose timer is
\* armed; running: the call whose callback runs a capture; orphaned: calls whose
\* timer was cleared; stuck: calls whose callback threw; settled: what the last
\* step did to a promise.
NoCallers == [armed |-> 0, running |-> 0, orphaned |-> 0, stuck |-> 0, settled |-> "none"]

\* No keyboard event under observation.
NoKeydown == [event |-> <<>>, shortcut |-> <<>>, matched |-> "none"]

\* No debounce timer armed, no capture in flight, no navigation pending.
Settled == ~timeout /\ saver = "idle" /\ ~isSaving /\ rendering = 0

\* ------------------------------------------------------------------- Init
Init ==
    /\ config \in [maxHistory : 1..MaxMaxHistory]
    /\ history = <<>>
    /\ position = -1
    /\ isSaving = FALSE
    /\ pendingSave = FALSE
    /\ timeout = FALSE
    /\ saver = "idle"
    /\ rendering = 0
    /\ obs = Observed("constructor", <<>>, <<>>, <<>>)
    /\ saves = 0
    /\ rt = RtIdle
    /\ burst = -1
    /\ callers = NoCallers
    /\ keydown = NoKeydown

\* ---------------------------------------------------------------- actions
InitializeAppends ==
    \E initialData \in InitialData :
        /\ history' = Append(history, [blocks |-> CloneBlocks(ExtractBlocks(initialData)),
                                       caretBlockIndex |-> Null, caretOffset |-> Null])
        /\ position' = 0
        /\ obs' = ObservedInitialize(GetState, <<initialData>>, Notify(history', position'))
        /\ UNCHANGED <<config, isSaving, pendingSave, timeout, saver, rendering, saves>>

Initialize ==
    \E initialData \in InitialData :
        /\ history' = << [blocks |-> CloneBlocks(ExtractBlocks(initialData)),
                          caretBlockIndex |-> Null, caretOffset |-> Null] >>
        /\ position' = 0
        /\ obs' = ObservedInitialize(GetState, <<initialData>>, Notify(history', position'))
        /\ UNCHANGED <<config, isSaving, pendingSave, timeout, saver, rendering, saves>>

UndoAlwaysNotifies ==
    IF ~CanUndo
    THEN /\ obs' = Observed("undo", <<>>, <<>>, Notify(history, position))
         /\ UNCHANGED <<config, history, position, isSaving, pendingSave, timeout, saver, rendering, saves>>
    ELSE /\ rendering < MaxPendingNav
         /\ position' = position - 1
         /\ rendering' = rendering + 1
         /\ obs' = Observed("undo", <<>>, <<CloneBlocks(history[position' + 1].blocks)>>, <<>>)
         /\ UNCHANGED <<config, history, isSaving, pendingSave, timeout, saver, saves>>

UndoRendersOld ==
    IF ~CanUndo
    THEN /\ obs' = Observed("undo", <<>>, <<>>, <<>>)
         /\ UNCHANGED <<config, history, position, isSaving, pendingSave, timeout, saver, rendering, saves>>
    ELSE /\ rendering < MaxPendingNav
         /\ position' = position - 1
         /\ rendering' = rendering + 1
         /\ obs' = Observed("undo", <<>>, <<CloneBlocks(history[position + 1].blocks)>>, <<>>)
         /\ UNCHANGED <<config, history, isSaving, pendingSave, timeout, saver, saves>>

Undo ==
    IF ~CanUndo
    THEN /\ obs' = Observed("undo", <<>>, <<>>, <<>>)
         /\ UNCHANGED <<config, history, position, isSaving, pendingSave, timeout, saver, rendering, saves>>
    ELSE /\ rendering < MaxPendingNav
         /\ position' = position - 1
         /\ rendering' = rendering + 1
         /\ obs' = Observed("undo", <<>>, <<CloneBlocks(history[position' + 1].blocks)>>, <<>>)
         /\ UNCHANGED <<config, history, isSaving, pendingSave, timeout, saver, saves>>

Redo ==
    IF ~CanRedo
    THEN /\ obs' = Observed("redo", <<>>, <<>>, <<>>)
         /\ UNCHANGED <<config, history, position, isSaving, pendingSave, timeout, saver, rendering, saves>>
    ELSE /\ rendering < MaxPendingNav
         /\ position' = position + 1
         /\ rendering' = rendering + 1
         /\ obs' = Observed("redo", <<>>, <<CloneBlocks(history[position' + 1].blocks)>>, <<>>)
         /\ UNCHANGED <<config, history, isSaving, pendingSave, timeout, saver, saves>>

RenderResolveSilent ==
    /\ rendering > 0
    /\ rendering' = rendering - 1
    /\ obs' = Observed("restored", <<>>, <<>>, <<>>)
    /\ UNCHANGED <<config, history, position, isSaving, pendingSave, timeout, saver, saves>>

\* editor.render() resolves: undo()/redo() resumes with restoreCaret and notify.
RenderResolve ==
    /\ rendering > 0
    /\ rendering' = rendering - 1
    /\ obs' = Observed("restored", <<>>, <<>>, Notify(history, position))
    /\ UNCHANGED <<config, history, position, isSaving, pendingSave, timeout, saver, saves>>

\* handleEditorChange -> debouncedSaver(): clearTimeout on the armed timer (the
\* promise of the call that armed it is left pending), then setTimeout.
HandleEditorChange ==
    /\ timeout' = TRUE
    /\ obs' = Observed("change", <<>>, <<>>, <<>>)
    /\ UNCHANGED <<config, history, position, isSaving, pendingSave, saver, rendering, saves>>

TimerFireIgnoresFlag ==
    /\ timeout
    /\ saver # "check"
    /\ timeout' = FALSE
    /\ isSaving' = TRUE
    /\ saver' = "capture1"
    /\ saves' = saves + 1
    /\ obs' = Observed("fire", <<>>, <<>>, <<>>)
    /\ UNCHANGED <<config, history, position, pendingSave, rendering>>

\* The armed timer fires and runs the debounced callback up to its first await.
\* Timers are macrotasks: none fires between captureSnapshot's return and the
\* callback's continuation (saver = "check").
TimerFire ==
    /\ timeout
    /\ saver # "check"
    /\ timeout' = FALSE
    /\ IF isSaving
       THEN /\ pendingSave' = TRUE
            /\ UNCHANGED <<isSaving, saver, saves>>
       ELSE /\ isSaving' = TRUE
            /\ saver' = "capture1"
            /\ saves' = saves + 1
            /\ UNCHANGED pendingSave
    /\ obs' = Observed("fire", <<>>, <<>>, <<>>)
    /\ UNCHANGED <<config, history, position, rendering>>

\* editor.save() resolves: the rest of captureSnapshot, finally block included.
SaveResolve ==
    /\ saver \in {"capture1", "capture2"}
    /\ \E blocks \in Contents, caret \in Carets :
          IF HasChanged(history, position, blocks)
          THEN LET r == PushSnapshot(history, position, config.maxHistory, blocks, caret)
               IN /\ history' = r.history
                  /\ position' = r.position
                  /\ obs' = ObservedPush(GetState, <<blocks>>, Notify(r.history, r.position))
          ELSE /\ obs' = Observed("unchanged", <<blocks>>, <<>>, <<>>)
               /\ UNCHANGED <<history, position>>
    /\ isSaving' = FALSE
    /\ saves' = saves - 1
    /\ saver' = IF saver = "capture1" THEN "check" ELSE "idle"
    /\ UNCHANGED <<config, pendingSave, timeout, rendering>>

SaveRejectKeepsFlag ==
    /\ saver \in {"capture1", "capture2"}
    /\ saves' = saves - 1
    /\ saver' = "idle"
    /\ obs' = Observed("saveFailed", <<>>, <<>>, <<>>)
    /\ UNCHANGED <<config, history, position, isSaving, pendingSave, timeout, rendering>>

\* editor.save() rejects: finally clears isSaving, the rejection leaves the
\* debounced callback (nothing after the await runs).
SaveReject ==
    /\ saver \in {"capture1", "capture2"}
    /\ isSaving' = FALSE
    /\ saves' = saves - 1
    /\ saver' = "idle"
    /\ obs' = Observed("saveFailed", <<>>, <<>>, <<>>)
    /\ UNCHANGED <<config, history, position, pendingSave, timeout, rendering>>

\* The debounced callback resumes after its first captureSnapshot.
CheckPending ==
    /\ saver = "check"
    /\ IF pendingSave
       THEN /\ pendingSave' = FALSE
            /\ isSaving' = TRUE
            /\ saver' = "capture2"
            /\ saves' = saves + 1
       ELSE /\ saver' = "idle"
            /\ UNCHANGED <<pendingSave, isSaving, saves>>
    /\ obs' = Observed("check", <<>>, <<>>, <<>>)
    /\ UNCHANGED <<config, history, position, timeout, rendering>>

\* Every operation of the manager; the observers rt and burst stay as they are.
Next ==
    \/ Initialize /\ UNCHANGED <<rt, burst, callers, keydown>>
    \/ Undo /\ UNCHANGED <<rt, burst, callers, keydown>>
    \/ Redo /\ UNCHANGED <<rt, burst, callers, keydown>>
    \/ RenderResolve /\ UNCHANGED <<rt, burst, callers, keydown>>
    \/ HandleEditorChange /\ UNCHANGED <<rt, burst, callers, keydown>>
    \/ TimerFire /\ UNCHANGED <<rt, burst, callers, keydown>>
    \/ SaveResolve /\ UNCHANGED <<rt, burst, callers, keydown>>
    \/ SaveReject /\ UNCHANGED <<rt, burst, callers, keydown>>
    \/ CheckPending /\ UNCHANGED <<rt, burst, callers, keydown>>

Spec == Init /\ [][Next]_vars

\* The same operations, with rt following undo() then redo(): an undo() called in
\* a settled state records getState() and the current content; its own render may
\* resolve; a redo() right after it closes the round trip; anything else ends it.
NextRoundTrip ==
    \/ /\ Undo
       /\ rt' = IF Settled
                THEN [phase |-> "undone", state |-> GetState,
                      blocks |-> CurrentBlocks(history, position)]
                ELSE RtIdle
       /\ UNCHANGED <<burst, callers, keydown>>
    \/ /\ Redo
       /\ rt' = IF rt.phase = "undone" THEN [rt EXCEPT !.phase = "redone"] ELSE RtIdle
       /\ UNCHANGED <<burst, callers, keydown>>
    \/ RenderResolve /\ UNCHANGED <<rt, burst, callers, keydown>>
    \/ Initialize /\ rt' = RtIdle /\ UNCHANGED <<burst, callers, keydown>>
    \/ HandleEditorChange /\ rt' = RtIdle /\ UNCHANGED <<burst, callers, keydown>>
    \/ TimerFire /\ rt' = RtIdle /\ UNCHANGED <<burst, callers, keydown>>
    \/ SaveResolve /\ rt' = RtIdle /\ UNCHANGED <<burst, callers, keydown>>
    \/ SaveReject /\ rt' = RtIdle /\ UNCHANGED <<burst, callers, keydown>>
    \/ CheckPending /\ rt' = RtIdle /\ UNCHANGED <<burst, callers, keydown>>

SpecRoundTrip == Init /\ [][NextRoundTrip]_vars

\* The operations with a host whose save() never rejects, and burst counting the
\* save() calls started since the last timer firing.
NextDebounce ==
    \/ TimerFire /\ burst' = (IF isSaving THEN 0 ELSE 1) /\ UNCHANGED <<rt, callers, keydown>>
    \/ CheckPending /\ burst' = (IF pendingSave THEN burst + 1 ELSE burst) /\ UNCHANGED <<rt, callers, keydown>>
    \/ SaveResolve /\ UNCHANGED <<rt, burst, callers, keydown>>
    \/ HandleEditorChange /\ UNCHANGED <<rt, burst, callers, keydown>>
    \/ Initialize /\ UNCHANGED <<rt, burst, callers, keydown>>
    \/ Undo /\ UNCHANGED <<rt, burst, callers, keydown>>
    \/ Redo /\ UNCHANGED <<rt, burst, callers, keydown>>
    \/ RenderResolve /\ UNCHANGED <<rt, burst, callers, keydown>>

SpecDebounce == Init /\ [][NextDebounce]_vars
\* The operations, with callers following the promises of handleEditorChange():
\* debounce() resolves a call's promise when the callback its timer started
\* returns; clearTimeout leaves the earlier call's promise without a resolver; a
\* callback that throws never reaches resolve().
Saturated(n) == IF n < MaxCalls THEN n + 1 ELSE MaxCalls

NextCalls ==
    \/ /\ HandleEditorChange
       /\ callers' = [callers EXCEPT !.armed = 1,
                                     !.orphaned = IF timeout THEN Saturated(@) ELSE @,
                                     !.settled = "none"]
       /\ UNCHANGED <<rt, burst, keydown>>
    \/ /\ TimerFire
       /\ callers' = IF isSaving
                     THEN [callers EXCEPT !.armed = 0, !.settled = "resolved"]
                     ELSE [callers EXCEPT !.armed = 0, !.running = 1, !.settled = "none"]
       /\ UNCHANGED <<rt, burst, keydown>>
    \/ /\ SaveResolve
       /\ callers' = IF saver = "capture2"
                     THEN [callers EXCEPT !.running = 0, !.settled = "resolved"]
                     ELSE [callers EXCEPT !.settled = "none"]
       /\ UNCHANGED <<rt, burst, keydown>>
    \/ /\ CheckPending
       /\ callers' = IF pendingSave
                     THEN [callers EXCEPT !.settled = "none"]
                     ELSE [callers EXCEPT !.running = 0, !.settled = "resolved"]
       /\ UNCHANGED <<rt, burst, keydown>>
    \/ /\ SaveReject
       /\ callers' = [callers EXCEPT !.running = 0, !.stuck = Saturated(@),
                                     !.settled = "none"]
       /\ UNCHANGED <<rt, burst, keydown>>
    \/ Initialize /\ callers' = [callers EXCEPT !.settled = "none"] /\ UNCHANGED <<rt, burst, keydown>>
    \/ Undo /\ callers' = [callers EXCEPT !.settled = "none"] /\ UNCHANGED <<rt, burst, keydown>>
    \/ Redo /\ callers' = [callers EXCEPT !.settled = "none"] /\ UNCHANGED <<rt, burst, keydown>>
    \/ RenderResolve /\ callers' = [callers EXCEPT !.settled = "none"] /\ UNCHANGED <<rt, burst, keydown>>

SpecCalls == Init /\ [][NextCalls]_vars

\* ------------------------------------------------------- shortcut matcher
\* Strings are sequences of one-character strings.
UpperCase ==
    <<"A", "B", "C", "D", "E", "F", "G", "H", "I", "J", "K", "L", "M",
      "N", "O", "P", "Q", "R", "S", "T", "U", "V", "W", "X", "Y", "Z">>

LowerCase ==
    <<"a", "b", "c", "d", "e", "f", "g", "h", "i", "j", "k", "l", "m",
      "n", "o", "p", "q", "r", "s", "t", "u", "v", "w", "x", "y", "z">>

\* String.prototype.toLowerCase
ToLowerCase(str) ==
    [i \in 1..Len(str) |->
        IF \E k \in 1..Len(UpperCase) : UpperCase[k] = str[i]
        THEN LowerCase[CHOOSE k \in 1..Len(UpperCase) : UpperCase[k] = str[i]]
        ELSE str[i]]

\* String.prototype.trim
RECURSIVE TrimStart(_)
TrimStart(str) ==
    IF str # <<>> /\ Head(str) = " " THEN TrimStart(Tail(str)) ELSE str

RECURSIVE TrimEnd(_)
TrimEnd(str) ==
    IF str # <<>> /\ str[Len(str)] = " " THEN TrimEnd(SubSeq(str, 1, Len(str) - 1)) ELSE str

Trim(str) == TrimEnd(TrimStart(str))

\* String.prototype.split('+'): the pieces between the separators, empty ones kept.
RECURSIVE SplitFrom(_, _)
SplitFrom(str, piece) ==
    IF str = <<>> THEN <<piece>>
    ELSE IF Head(str) = "+" THEN <<piece>> \o SplitFrom(Tail(str), <<>>)
         ELSE SplitFrom(Tail(str), Append(piece, Head(str)))

Split(str) == SplitFrom(str, <<>>)

\* matchesShortcut: the combination, each part trimmed and lowercased.
Combination(shortcut) ==
    IF shortcut.kind = "array" THEN shortcut.parts ELSE Split(shortcut.text)

Normalized(shortcut) ==
    [i \in 1..Len(Combination(shortcut)) |-> ToLowerCase(Trim(Combination(shortcut)[i]))]

Includes(parts, str) == \E i \in 1..Len(parts) : parts[i] = str

\* matchesShortcut(event, shortcut), one early return after the other.
MatchesShortcut(event, shortcut) ==
    LET all == Normalized(shortcut)
    IN IF all = <<>> \/ all[Len(all)] = <<>> THEN FALSE
       ELSE LET key == all[Len(all)]
                normalized == SubSeq(all, 1, Len(all) - 1)
                requiresCtrl == Includes(normalized, <<"c", "t", "r", "l">>)
                                    \/ Includes(normalized, <<"c", "o", "n", "t", "r", "o", "l">>)
                requiresMeta == Includes(normalized, <<"c", "m", "d">>)
                                    \/ Includes(normalized, <<"m", "e", "t", "a">>)
                requiresAlt == Includes(normalized, <<"a", "l", "t">>)
                requiresShift == Includes(normalized, <<"s", "h", "i", "f", "t">>)
            IN IF requiresCtrl /\ ~event.ctrlKey THEN FALSE
               ELSE IF requiresMeta /\ ~event.metaKey THEN FALSE
               ELSE IF requiresAlt /\ ~event.altKey THEN FALSE
               ELSE IF requiresShift /\ ~event.shiftKey THEN FALSE
               ELSE IF ~requiresCtrl /\ event.ctrlKey THEN FALSE
               ELSE IF ~requiresMeta /\ event.metaKey THEN FALSE
               ELSE IF ~requiresAlt /\ event.altKey THEN FALSE
               ELSE IF ~requiresShift /\ event.shiftKey THEN FALSE
               ELSE ToLowerCase(event.key) = key

\* Keyboard events: every combination of the four modifier flags with a key
\* (KeyboardEvent.key of the space bar is " ").
KeyboardEvents ==
    [key : { <<"z">>, <<"Z">>, <<"y">>, <<" ">> },
     ctrlKey : BOOLEAN, metaKey : BOOLEAN, altKey : BOOLEAN, shiftKey : BOOLEAN]

CtrlZ == <<"C", "T", "R", "L", "+", "Z">>

\* Shortcut definitions: the defaults, an array form, a spaced form with the
\* "control" alias, a three-modifier form, the space bar as key, and forms
\* without a key.
ShortcutDefinitions ==
    [kind : {"string"},
     text : { <<"C", "M", "D", "+", "Z">>,
              CtrlZ,
              <<"C", "M", "D", "+", "S", "H", "I", "F", "T", "+", "Z">>,
              <<"C", "T", "R", "L", "+", "S", "H", "I", "F", "T", "+", "Z">>,
              <<"C", "T", "R", "L", "+", "Y">>,
              <<"C", "o", "n", "t", "r", "o", "l", " ", "+", " ", "z">>,
              <<"m", "e", "t", "a", "+", "a", "l", "t", "+", "s", "h", "i", "f", "t", "+", "y">>,
              <<"C", "T", "R", "L", "+">>,
              <<>> }]
        \cup [kind : {"array"},
              parts : { << <<"A", "L", "T">>, <<"Z">> >>,
                        << <<"C", "T", "R", "L">>, <<" ">> >>,
                        <<>> }]

InitShortcut ==
    /\ config \in [maxHistory : 1..MaxMaxHistory]
    /\ history = <<>>
    /\ position = -1
    /\ isSaving = FALSE
    /\ pendingSave = FALSE
    /\ timeout = FALSE
    /\ saver = "idle"
    /\ rendering = 0
    /\ saves = 0
    /\ obs = Observed("constructor", <<>>, <<>>, <<>>)
    /\ rt = RtIdle
    /\ burst = -1
    /\ callers = NoCallers
    /\ keydown \in [event : KeyboardEvents, shortcut : ShortcutDefinitions, matched : {"none"}]

\* handleKeyDown evaluating matchesShortcut on the event and one definition.
MatchKeydown ==
    /\ keydown.matched = "none"
    /\ keydown' = [keydown EXCEPT
                      !.matched = IF MatchesShortcut(keydown.event, keydown.shortcut)
                                  THEN "yes" ELSE "no"]
    /\ UNCHANGED <<prog, obs, rt, burst, callers>>

NextShortcut == MatchKeydown

SpecShortcut == InitShortcut /\ [][NextShortcut]_vars

\* ------------------------------------------------------------------ claims

\* C1: in every reachable state -1 <= position < length(history), under any
\* interleaving of initialize, change notifications, timer firings, save
\* completions, undo and redo.
PositionInRange == -1 <= position /\ position < Len(history)

\* Two navigations await their render while a capture is in flight.
PositionInRangeWitness ==
    rendering >= 2 /\ isSaving /\ position = 0 /\ Len(history) = 3

\* C2: right after every push by a capture, position = length(history) - 1 and
\* canRedo() is false.
PushMovesToTail ==
    obs.op = "push" => (position = Len(history) - 1 /\ ~CanRedo)

\* A push made while a redo was available.
PushMovesToTailWitness ==
    obs.op = "push" /\ obs.before.canRedo /\ obs.before.count = 3

\* C3: length(history) never exceeds maxHistory; a push at capacity drops the
\* oldest entries, keeps the others in order and puts the new snapshot last, with
\* position = length - 1.
PushAtCapacity ==
    LET kept == position + 1
        max == config.maxHistory
    IN (obs'.op = "push" /\ kept >= max) =>
          /\ Len(history') = max
          /\ \A i \in 1..(max - 1) : history'[i] = history[kept - max + 1 + i]
          /\ history'[max].blocks = obs'.saved[1]
          /\ position' = max - 1

HistoryBounded == [](Len(history) <= config.maxHistory) /\ [][PushAtCapacity]_vars

\* A push into a full history of three entries.
HistoryBoundedWitness ==
    obs.op = "push" /\ obs.before.count = 3 /\ obs.before.position = 2
        /\ config.maxHistory = 3

\* C4: a push while position < length - 1, the bound not being hit, leaves exactly
\* the old entries 0..position followed by the new snapshot.
PushTruncatesRedo ==
    (obs'.op = "push" /\ position < Len(history) - 1 /\ position + 1 < config.maxHistory) =>
        /\ Len(history') = position + 2
        /\ SubSeq(history', 1, position + 1) = SubSeq(history, 1, position + 1)
        /\ history'[position + 2].blocks = obs'.saved[1]

RedoBranchDestroyed == [][PushTruncatesRedo]_vars

\* A push from position 0 of a three-entry history: two redo entries are gone.
RedoBranchDestroyedWitness ==
    obs.op = "push" /\ obs.before.count = 3 /\ obs.before.position = 0
        /\ Len(history) = 2

\* C5: undo() with canUndo() moves position down by one, leaves history alone
\* and calls render once with the content at the new position; redo() with
\* canRedo() does the same upwards.
NavigationStep ==
    /\ (obs'.op = "undo" /\ position > 0) =>
          /\ position' = position - 1
          /\ history' = history
          /\ obs'.rendered = <<history[position].blocks>>
    /\ (obs'.op = "redo" /\ position >= 0 /\ position < Len(history) - 1) =>
          /\ position' = position + 1
          /\ history' = history
          /\ obs'.rendered = <<history[position + 2].blocks>>

NavigationMovesByOne == [][NavigationStep]_vars

\* A redo that rendered the third snapshot.
NavigationMovesByOneWitness ==
    obs.op = "redo" /\ obs.rendered # <<>> /\ position = 2

\* C6: undo() with position <= 0 and redo() with position < 0 or at the tail
\* change nothing, render nothing and notify nobody.
InvalidNavigationStep ==
    (\/ obs'.op = "undo" /\ position <= 0
     \/ obs'.op = "redo" /\ (position < 0 \/ position >= Len(history) - 1)) =>
        /\ UNCHANGED prog
        /\ obs'.rendered = <<>>
        /\ obs'.notified = <<>>

InvalidNavigationIsNoOp == [][InvalidNavigationStep]_vars

\* An undo() at position 0 of a longer history did nothing.
InvalidNavigationIsNoOpWitness ==
    obs.op = "undo" /\ obs.rendered = <<>> /\ position = 0 /\ Len(history) >= 2

\* C7 as stated: from every settled state, undo() then redo() brings getState()
\* back and the content rendered last, if any was, is that of the snapshot
\* current before.
RoundTripAlways ==
    (rt.phase = "redone" /\ obs.op = "redo") =>
        (GetState = rt.state /\ (obs.rendered = <<>> \/ obs.rendered = <<rt.blocks>>))

\* C7 amended: the same, from the settled states where canUndo() is true.
RoundTripWhenUndoable ==
    (rt.phase = "redone" /\ obs.op = "redo" /\ rt.state.canUndo) =>
        (GetState = rt.state /\ obs.rendered = <<rt.blocks>>)

\* A round trip from the middle of the history.
RoundTripWhenUndoableWitness ==
    rt.phase = "redone" /\ obs.op = "redo" /\ rt.state.canUndo /\ rt.state.canRedo

\* C8: a push and initialize notify once in the step, with the state after it;
\* a successful undo/redo notifies once when its render resolves, with the state
\* at that moment; a capture without change and a no-op undo/redo notify nobody.
NotifiedAsOwed ==
    /\ obs.op \in {"push", "initialize", "restored"} => obs.notified = <<GetState>>
    /\ obs.op \notin {"push", "initialize", "restored"} => obs.notified = <<>>

NotificationAccounting ==
    /\ obs'.op \in {"undo", "redo"} =>
          rendering' = rendering + (IF position' # position THEN 1 ELSE 0)
    /\ obs'.op = "restored" => rendering' = rendering - 1
    /\ obs'.op \notin {"undo", "redo", "restored"} => rendering' = rendering

OneNotificationPerChange == []NotifiedAsOwed /\ [][NotificationAccounting]_vars

\* An undo's render resolved after a later push: the notification carries the
\* state of that moment.
OneNotificationPerChangeWitness ==
    obs.op = "restored" /\ obs.notified = <<GetState>> /\ position = Len(history) - 1
        /\ Len(history) = 3 /\ rendering = 1

\* C9: a burst of handleEditorChange() calls followed by a quiet period makes
\* exactly one capture attempt: once the coalescer is idle again, exactly one
\* save() call has been started since the timer fired.
OneCapturePerBurst == (burst >= 0 /\ saver = "idle") => burst = 1

\* C10: a timer firing during a capture in flight, first or chained, is followed
\* by one more capture attempt: the coalescer never comes to rest with the
\* pending flag still set.
NoDropGuarantee == (saver = "idle") => ~pendingSave
\* C11: no handleEditorChange() call resolves before the capture work it
\* triggered has finished: no promise is resolved while a capture is in flight.
ResolvesAfterCapture == callers.settled = "resolved" => saves = 0
\* C12: every handleEditorChange() call eventually completes, also a call whose
\* timer a later call cleared: no pending promise is ever left without a timer
\* or a running callback that will resolve it.
EveryCallCanResolve == callers.orphaned = 0

\* C14: when save() fails during a capture that handleEditorChange() triggered,
\* the promise of that call is rejected in the step the failure surfaces.
SaveFailureRejectsCaller == obs.op = "saveFailed" => callers.settled = "rejected"
\* C13: hasChanged is false exactly when the candidate is structurally identical
\* to the snapshot at position (same blocks in the same order, each with the same
\* field/value pairs in any order): a capture leaves history alone exactly then.
FieldsOf(block) == { block[i] : i \in 1..Len(block) }

SameContent(a, b) ==
    /\ Len(a) = Len(b)
    /\ \A i \in 1..Len(a) : FieldsOf(a[i]) = FieldsOf(b[i])

ChangeDetectionStep ==
    (obs'.op \in {"push", "unchanged"} /\ position >= 0) =>
        (obs'.op = "unchanged" <=> SameContent(CurrentBlocks(history, position), obs'.saved[1]))

ChangeDetectionStructural == [][ChangeDetectionStep]_vars
\* C15: initialize(data), in any state, leaves exactly one snapshot, the given
\* content (as JSON carries it: without undefined-valued fields) with no caret,
\* position 0 and getState() = {position: 0, count: 1, canUndo: false, canRedo: false}.
GivenBlocks(data) == IF data.kind = "other" THEN <<>> ELSE data.blocks

PlainFields(block) == SelectSeq(block, LAMBDA f : f[2] # Undefined)

InitializeSeedsOne ==
    obs.op = "initialize" =>
        LET given == GivenBlocks(obs.saved[1])
        IN /\ Len(history) = 1
           /\ position = 0
           /\ history[1].caretBlockIndex = Null
           /\ history[1].caretOffset = Null
           /\ Len(history[1].blocks) = Len(given)
           /\ \A i \in 1..Len(given) : history[1].blocks[i] = PlainFields(given[i])
           /\ GetState = [position |-> 0, count |-> 1, canUndo |-> FALSE, canRedo |-> FALSE]

\* initialize() called at position 1 of a three-entry history.
InitializeSeedsOneWitness ==
    obs.op = "initialize" /\ obs.before.count = 3 /\ obs.before.position = 1
        /\ obs.saved[1].blocks = <<BlockFirstExtra>>
\* C16: for every event and every definition, the event matches iff the set
\* of pressed modifiers equals the set the definition requires and the event
\* key equals the definition's key token case-insensitively.  A match implies
\* both for the trimmed tokens; both holding for the key token as given
\* implies a match.
PressedModifiers(event) ==
    (IF event.ctrlKey THEN {"ctrl"} ELSE {}) \cup (IF event.metaKey THEN {"meta"} ELSE {})
        \cup (IF event.altKey THEN {"alt"} ELSE {}) \cup (IF event.shiftKey THEN {"shift"} ELSE {})

ModifierNamed(token) ==
    IF token \in { <<"c", "t", "r", "l">>, <<"c", "o", "n", "t", "r", "o", "l">> } THEN {"ctrl"}
    ELSE IF token \in { <<"c", "m", "d">>, <<"m", "e", "t", "a">> } THEN {"meta"}
    ELSE IF token = <<"a", "l", "t">> THEN {"alt"}
    ELSE IF token = <<"s", "h", "i", "f", "t">> THEN {"shift"}
    ELSE {}

RequiredModifiers(tokens) ==
    UNION { ModifierNamed(tokens[i]) : i \in 1..(Len(tokens) - 1) }

ExactModifierMatch ==
    keydown.matched # "none" =>
        LET tokens == Normalized(keydown.shortcut)
            given == Combination(keydown.shortcut)
            exact == PressedModifiers(keydown.event) = RequiredModifiers(tokens)
        IN /\ keydown.matched = "yes" =>
                 /\ tokens # <<>>
                 /\ exact
                 /\ ToLowerCase(keydown.event.key) = tokens[Len(tokens)]
           /\ ( /\ given # <<>>
                /\ exact
                /\ ToLowerCase(keydown.event.key) = ToLowerCase(given[Len(given)]) )
                 => keydown.matched = "yes"
\* C17: captures are strictly serialized: in every reachable state at most one
\* host save() issued by captureSnapshot is pending.
CapturesSerialized == saves \in {0, 1} /\ (saves = 1 <=> saver \in {"capture1", "capture2"})

\* The chained follow-up capture has just been started and is the only one in flight.
CapturesSerializedWitness == obs.op = "check" /\ saver = "capture2" /\ saves = 1 /\ ~pendingSave
\* C18: a capture that runs while there is no current snapshot (position = -1)
\* pushes a first snapshot and sets position to 0, whatever the candidate
\* content, an empty block list included.
FirstCaptureStep ==
    (position = -1 /\ obs'.op \in {"push", "unchanged"}) =>
        /\ obs'.op = "push"
        /\ Len(history') = 1
        /\ position' = 0
        /\ history'[1].blocks = obs'.saved[1]

FirstCaptureAlwaysPushes == [][FirstCaptureStep]_vars
\* C19: a failing save() leaves history and position unchanged and clears
\* isSaving; isSaving is set only while a save() is pending, so a timer that
\* fires while none is pending (as after a failure) starts a new capture
\* instead of only setting pendingSave.
SaveFailureStep ==
    /\ obs'.op = "saveFailed" =>
          /\ history' = history
          /\ position' = position
          /\ ~isSaving'
          /\ saves' = 0
    /\ (obs'.op = "fire" /\ saves = 0) =>
          /\ saves' = 1
          /\ saver' = "capture1"
          /\ pendingSave' = pendingSave

SaveFailureDoesNotBlock == [](saves = 0 => ~isSaving) /\ [][SaveFailureStep]_vars

\* A save() has just failed with a redo branch in history and a timer armed.
SaveFailureDoesNotBlockWitness ==
    /\ obs.op = "saveFailed"
    /\ timeout
    /\ Len(history) = 2
    /\ position = 0
    /\ ~isSaving
\* C20: in every reachable state any two adjacent snapshots in history have
\* different content, as compared by the change detector.
NoDuplicateNeighbours ==
    \A i \in 1..(Len(history) - 1) :
        JSONStringify(history[i].blocks) # JSONStringify(history[i + 1].blocks)

\* A full history that returns to an earlier content: equal snapshots occur,
\* but not next to each other; the last one was pushed by a capture.
NoDuplicateNeighboursWitness ==
    /\ obs.op = "push"
    /\ Len(history) = 3
    /\ history[1].blocks = history[3].blocks
====
